---- MODULE Spec2Model ----
(***************************************************************************)
(* Model of the monthly transaction reporting pipeline:                    *)
(* reader.read_transactions, normalizer.normalize_and_filter,              *)
(* summary.build_summary_metrics, xml_builder.build_xml_report,            *)
(* summary.write_summary_json, emailer.send_report_email, sequenced by     *)
(* processing.process_month.                                               *)
(*                                                                         *)
(* Text values are sequences of one-character strings, so that strip,      *)
(* upper, lower, replace, slicing, startswith, strptime/strftime and       *)
(* Decimal parsing are computed on the characters as the code does.        *)
(***************************************************************************)
EXTENDS Integers, Sequences, FiniteSets, TLC

(* ------------------------------------------------------------------ *)
(* Bounds of the model                                                 *)
(* ------------------------------------------------------------------ *)
MaxRows == 3
MaxThousandths == 60

(* ------------------------------------------------------------------ *)
(* Characters and Python str methods                                   *)
(* ------------------------------------------------------------------ *)
DigitChars == <<"0", "1", "2", "3", "4", "5", "6", "7", "8", "9">>

LowerChars == <<"a", "b", "c", "d", "e", "f", "g", "h", "i", "j", "k", "l", "m",
                "n", "o", "p", "q", "r", "s", "t", "u", "v", "w", "x", "y", "z">>

UpperChars == <<"A", "B", "C", "D", "E", "F", "G", "H", "I", "J", "K", "L", "M",
                "N", "O", "P", "Q", "R", "S", "T", "U", "V", "W", "X", "Y", "Z">>

IsDigit(c) == \E k \in 1..10 : DigitChars[k] = c

DigitVal(c) == (CHOOSE k \in 1..10 : DigitChars[k] = c) - 1

IsSpace(c) == c = " "

UpperChar(c) ==
    IF \E k \in 1..26 : LowerChars[k] = c
    THEN UpperChars[CHOOSE k \in 1..26 : LowerChars[k] = c]
    ELSE c

LowerChar(c) ==
    IF \E k \in 1..26 : UpperChars[k] = c
    THEN LowerChars[CHOOSE k \in 1..26 : UpperChars[k] = c]
    ELSE c

upper(s) == [k \in 1..Len(s) |-> UpperChar(s[k])]

lower(s) == [k \in 1..Len(s) |-> LowerChar(s[k])]

RECURSIVE lstrip(_)
lstrip(s) == IF s # <<>> /\ IsSpace(Head(s)) THEN lstrip(Tail(s)) ELSE s

RECURSIVE rstrip(_)
rstrip(s) ==
    IF s # <<>> /\ IsSpace(s[Len(s)]) THEN rstrip(SubSeq(s, 1, Len(s) - 1)) ELSE s

strip(s) == rstrip(lstrip(s))

(* s.replace(c, d) for a single character c; d is a (possibly empty) text *)
RECURSIVE replace(_, _, _)
replace(s, c, d) ==
    IF s = <<>> THEN <<>>
    ELSE (IF Head(s) = c THEN d ELSE <<Head(s)>>) \o replace(Tail(s), c, d)

startswith(s, p) == Len(s) >= Len(p) /\ SubSeq(s, 1, Len(p)) = p

(* s.split(c): the fields of s between occurrences of the character c *)
RECURSIVE split(_, _)
split(s, c) ==
    IF \A k \in 1..Len(s) : s[k] # c THEN <<s>>
    ELSE LET p == CHOOSE k \in 1..Len(s) : s[k] = c /\ \A j \in 1..(k - 1) : s[j] # c
         IN  <<SubSeq(s, 1, p - 1)>> \o split(SubSeq(s, p + 1, Len(s)), c)

AllDigits(s) == s # <<>> /\ \A k \in 1..Len(s) : IsDigit(s[k])

RECURSIVE DigitsToNat(_)
DigitsToNat(s) ==
    IF s = <<>> THEN 0
    ELSE DigitsToNat(SubSeq(s, 1, Len(s) - 1)) * 10 + DigitVal(s[Len(s)])

(* str(n) for a natural number n *)
RECURSIVE NatToDigits(_)
NatToDigits(n) ==
    IF n < 10 THEN <<DigitChars[n + 1]>>
    ELSE NatToDigits(n \div 10) \o <<DigitChars[(n % 10) + 1]>>

(* "%02d" % n *)
Pad2(n) == IF n < 10 THEN <<"0">> \o NatToDigits(n) ELSE NatToDigits(n)

RECURSIVE Pow10(_)
Pow10(k) == IF k = 0 THEN 1 ELSE 10 * Pow10(k - 1)

(* ------------------------------------------------------------------ *)
(* normalizer._parse_date_to_iso                                        *)
(* ------------------------------------------------------------------ *)
IsLeap(y) == (y % 4 = 0 /\ y % 100 # 0) \/ y % 400 = 0

DaysInMonth(y, m) ==
    IF m = 2 THEN (IF IsLeap(y) THEN 29 ELSE 28)
    ELSE IF m \in {4, 6, 9, 11} THEN 30 ELSE 31

(* A strptime numeric field: between lo and hi digits, value in minv..maxv *)
NumField(s, lo, hi, minv, maxv) ==
    /\ AllDigits(s)
    /\ Len(s) >= lo
    /\ Len(s) <= hi
    /\ DigitsToNat(s) >= minv
    /\ DigitsToNat(s) <= maxv

(* the six formats of fmts: date separator, field order, time separator *)
fmts == <<
    [dsep |-> "-", ymd |-> TRUE,  tsep |-> ""],
    [dsep |-> "/", ymd |-> TRUE,  tsep |-> ""],
    [dsep |-> "/", ymd |-> FALSE, tsep |-> ""],
    [dsep |-> "-", ymd |-> FALSE, tsep |-> ""],
    [dsep |-> "-", ymd |-> TRUE,  tsep |-> "T"],
    [dsep |-> "-", ymd |-> TRUE,  tsep |-> " "] >>

NoDate == <<>>

(* dt.strftime("%Y-%m-%d"): glibc does not zero-pad %Y *)
strftime(y, m, d) == NatToDigits(y) \o <<"-">> \o Pad2(m) \o <<"-">> \o Pad2(d)

TimeOK(t) ==
    LET f == split(t, ":")
    IN  /\ Len(f) = 3
        /\ NumField(f[1], 1, 2, 0, 23)
        /\ NumField(f[2], 1, 2, 0, 59)
        /\ NumField(f[3], 1, 2, 0, 61)

(* datetime.strptime(s, fmt) followed by strftime; NoDate on ValueError *)
strptime(s, fmt) ==
    LET parts == IF fmt.tsep = "" THEN <<s>> ELSE split(s, fmt.tsep)
        f     == split(parts[1], fmt.dsep)
        fy    == IF fmt.ymd THEN f[1] ELSE f[3]
        fm    == f[2]
        fd    == IF fmt.ymd THEN f[3] ELSE f[1]
    IN  IF /\ Len(parts) = (IF fmt.tsep = "" THEN 1 ELSE 2)
           /\ (fmt.tsep # "" => TimeOK(parts[2]))
           /\ Len(f) = 3
           /\ NumField(fy, 4, 4, 1, 9999)
           /\ NumField(fm, 1, 2, 1, 12)
           /\ NumField(fd, 1, 2, 1, 31)
           /\ DigitsToNat(fd) <= DaysInMonth(DigitsToNat(fy), DigitsToNat(fm))
        THEN strftime(DigitsToNat(fy), DigitsToNat(fm), DigitsToNat(fd))
        ELSE NoDate

RECURSIVE TryFormats(_, _)
TryFormats(s, k) ==
    IF k > Len(fmts) THEN NoDate
    ELSE IF strptime(strip(s), fmts[k]) # NoDate THEN strptime(strip(s), fmts[k])
    ELSE TryFormats(s, k + 1)

parse_date_to_iso(date_str) ==
    IF TryFormats(date_str, 1) # NoDate THEN TryFormats(date_str, 1)
    ELSE IF Len(date_str) >= 10 /\ date_str[5] = "-" /\ date_str[8] = "-"
         THEN SubSeq(date_str, 1, 10)
         ELSE NoDate

(* ------------------------------------------------------------------ *)
(* decimal.Decimal as used at normalizer.py:84-88                       *)
(* ------------------------------------------------------------------ *)
(* Decimal(text): sign, digits with at most one point, NaN, Infinity.   *)
(* kind "num" carries the coefficient and the number of fraction digits *)
Decimal(text) ==
    LET t    == strip(text)
        neg  == t # <<>> /\ Head(t) = "-"
        body == IF t # <<>> /\ Head(t) \in {"-", "+"} THEN Tail(t) ELSE t
        f    == split(body, ".")
        ip   == f[1]
        fp   == IF Len(f) = 2 THEN f[2] ELSE <<>>
    IN  IF upper(body) = <<"N", "A", "N">> THEN [kind |-> "nan", neg |-> neg, coeff |-> 0, scale |-> 0]
        ELSE IF upper(body) \in {<<"I", "N", "F">>, <<"I", "N", "F", "I", "N", "I", "T", "Y">>}
             THEN [kind |-> "inf", neg |-> neg, coeff |-> 0, scale |-> 0]
        ELSE IF /\ Len(f) <= 2
                /\ ip \o fp # <<>>
                /\ \A k \in 1..Len(ip \o fp) : IsDigit((ip \o fp)[k])
             THEN [kind |-> "num", neg |-> neg, coeff |-> DigitsToNat(ip \o fp), scale |-> Len(fp)]
        ELSE [kind |-> "invalid", neg |-> FALSE, coeff |-> 0, scale |-> 0]

(* d.quantize(Decimal("0.01")) under the default context: ROUND_HALF_EVEN. *)
(* The result is the number of cents (magnitude).                          *)
quantize(d) ==
    IF d.scale <= 2 THEN d.coeff * Pow10(2 - d.scale)
    ELSE LET div == Pow10(d.scale - 2)
             q   == d.coeff \div div
             r   == d.coeff % div
         IN  IF 2 * r > div \/ (2 * r = div /\ q % 2 = 1) THEN q + 1 ELSE q

(* f"{amt:.2f}" for a positive number of cents *)
FormatCents(c) == NatToDigits(c \div 100) \o <<".">> \o Pad2(c % 100)

(* int(text) then str(): Network at normalizer.py:107-111,124; 1 on ValueError *)
network_str(text) ==
    LET t    == strip(text)
        neg  == t # <<>> /\ Head(t) = "-"
        body == IF t # <<>> /\ Head(t) \in {"-", "+"} THEN Tail(t) ELSE t
    IN  IF AllDigits(body)
        THEN (IF neg /\ DigitsToNat(body) # 0 THEN <<"-">> ELSE <<>>) \o NatToDigits(DigitsToNat(body))
        ELSE <<"1">>

(* ------------------------------------------------------------------ *)
(* normalizer.normalize_and_filter                                      *)
(* ------------------------------------------------------------------ *)
ALLOWED_STATUSES == {
    <<"a", "p", "p", "r", "o", "v", "e", "d">>,
    <<"c", "h", "a", "r", "g", "e", "b", "a", "c", "k">>,
    <<"r", "e", "v", "e", "r", "s", "e", "d">>,
    <<"r", "e", "f", "u", "n", "d", "e", "d">>,
    <<"p", "e", "n", "d", "i", "n", "g">>,
    <<"d", "e", "c", "l", "i", "n", "e", "d">> }

DEBIT == <<"D", "E", "B", "I", "T">>

CREDIT == <<"C", "R", "E", "D", "I", "T">>

ALLOWED_TYPES == {DEBIT, CREDIT}

unknown == <<"u", "n", "k", "n", "o", "w", "n">>

BRL == <<"B", "R", "L">>

MetricKeys == {"duplicates_removed", "below_threshold_excluded", "invalid_labels",
               "invalid_dates", "invalid_amounts", "invalid_currency"}

ZeroMetrics == [k \in MetricKeys |-> 0]

(* metrics[key] += 1 *)
Bump(m, key) == [m EXCEPT ![key] = @ + 1]

(* r.get(k) or d: an absent column, None and "" are all falsy *)
GetOr(r, k, d) == IF k \in DOMAIN r /\ r[k] # <<>> THEN r[k] ELSE d

(* r.get(k1) or r.get(k2) or ... or d *)
RECURSIVE FirstTruthy(_, _, _)
FirstTruthy(r, keys, d) ==
    IF keys = <<>> THEN d
    ELSE GetOr(r, Head(keys), FirstTruthy(r, Tail(keys), d))

tid_of(r) == strip(FirstTruthy(r, <<"id", "transaction_id", "transaction_code">>, <<>>))

status_raw_of(r) == lower(strip(GetOr(r, "status", <<>>)))

status_of(r) == IF status_raw_of(r) \in ALLOWED_STATUSES THEN status_raw_of(r) ELSE unknown

date_iso_of(r) == parse_date_to_iso(strip(FirstTruthy(r, <<"date", "timestamp">>, <<>>)))

currency_raw_of(r) == upper(strip(GetOr(r, "currency", BRL)))

amt_raw_of(r) == replace(FirstTruthy(r, <<"amount", "amount_BRL">>, <<"0">>), ",", <<".">>)

type_raw_of(r) == upper(strip(FirstTruthy(r, <<"type", "category">>, <<>>)))

ttype_of(r) == IF type_raw_of(r) \in ALLOWED_TYPES THEN type_raw_of(r) ELSE DEBIT

merchant_id_of(r) ==
    strip(replace(replace(replace(FirstTruthy(r, <<"merchant_id", "merchant">>, <<>>),
                                  ".", <<>>), "/", <<>>), "-", <<>>))

category_of(r) == upper(strip(GetOr(r, "category", ttype_of(r))))

(* seen_ids.add(tid) left out *)
seen_add_forgotten(seen, tid) == seen

(* seen_ids.add(tid) *)
seen_add(seen, tid) == seen \cup {tid}

(* the month test comparing the year only *)
in_target_month_year_only(date_iso, target_month) ==
    startswith(date_iso, SubSeq(target_month, 1, 4))

(* the test of line 73: date_iso.startswith(target_month) *)
in_target_month(date_iso, target_month) == startswith(date_iso, target_month)

(* a row without identity counted as an invalid label *)
skip_no_identity_counted(m) == Bump(m, "invalid_labels")

(* the counters after the `continue` of line 50 (missing identity) *)
skip_no_identity(m) == m

(* an out-of-month row counted as an invalid date *)
skip_out_of_month_counted(m) == Bump(m, "invalid_dates")

(* the counters after the `continue` of line 74 (out-of-month row) *)
skip_out_of_month(m) == m

(* One iteration of the loop of normalize_and_filter on row r.           *)
(* exit names the way the row leaves the iteration; "raise" is the       *)
(* InvalidOperation of `amt <= Decimal("0.00")` on a NaN, which is       *)
(* outside the try block and ends the call.                              *)
normalize_row(r, seen, m, target_month) ==
    LET tid      == tid_of(r)
        m_status == IF status_of(r) = unknown THEN Bump(m, "invalid_labels") ELSE m
        date_iso == date_iso_of(r)
        m_curr   == IF currency_raw_of(r) = <<>> THEN Bump(m_status, "invalid_currency") ELSE m_status
        currency == IF currency_raw_of(r) = <<>> THEN BRL ELSE currency_raw_of(r)
        d        == Decimal(amt_raw_of(r))
        cents    == quantize(d)
        ttype    == ttype_of(r)
        m_type   == IF ttype \notin ALLOWED_TYPES THEN Bump(m_curr, "invalid_labels") ELSE m_curr
        tx       == [id |-> tid, Status |-> status_of(r), Date |-> date_iso,
                     Amount |-> FormatCents(cents), Currency |-> currency, Type |-> ttype,
                     MerchantId |-> merchant_id_of(r),
                     Network |-> network_str(GetOr(r, "network", <<"1">>)),
                     Category |-> category_of(r)]
    IN  IF tid = <<>>
        THEN [exit |-> "noid", seen |-> seen, metrics |-> skip_no_identity(m), out |-> <<>>]
        ELSE IF tid \in seen
        THEN [exit |-> "dup", seen |-> seen, metrics |-> Bump(m, "duplicates_removed"), out |-> <<>>]
        ELSE IF date_iso = NoDate
        THEN [exit |-> "date", seen |-> seen_add(seen, tid),
              metrics |-> Bump(m_status, "invalid_dates"), out |-> <<>>]
        ELSE IF ~ in_target_month(date_iso, target_month)
        THEN [exit |-> "month", seen |-> seen_add(seen, tid),
              metrics |-> skip_out_of_month(m_status), out |-> <<>>]
        ELSE IF d.kind \in {"invalid", "inf"}
        THEN [exit |-> "amount", seen |-> seen_add(seen, tid),
              metrics |-> Bump(m_curr, "invalid_amounts"), out |-> <<>>]
        ELSE IF d.kind = "nan"
        THEN [exit |-> "raise", seen |-> seen_add(seen, tid), metrics |-> m_curr, out |-> <<>>]
        ELSE IF d.neg \/ cents = 0
        THEN [exit |-> "below", seen |-> seen_add(seen, tid),
              metrics |-> Bump(m_curr, "below_threshold_excluded"), out |-> <<>>]
        ELSE [exit |-> "emit", seen |-> seen_add(seen, tid), metrics |-> m_type, out |-> <<tx>>]

(* ------------------------------------------------------------------ *)
(* summary.build_summary_metrics                                        *)
(* ------------------------------------------------------------------ *)
(* a.update(b) *)
dict_update(a, b) == [k \in (DOMAIN a) \cup (DOMAIN b) |-> IF k \in DOMAIN b THEN b[k] ELSE a[k]]

(* rows_excluded computed without the duplicates *)
build_summary_metrics_no_dups(rows_in, rows_out, extra_metrics) ==
    LET base   == [rows_in |-> rows_in, rows_out |-> rows_out]
        merged == dict_update(base, extra_metrics)
    IN  dict_update(merged, [rows_excluded |-> rows_in - rows_out])

build_summary_metrics(rows_in, rows_out, extra_metrics) ==
    LET base   == [rows_in |-> rows_in, rows_out |-> rows_out]
        merged == dict_update(base, extra_metrics)
        dups   == IF "duplicates_removed" \in DOMAIN merged THEN merged["duplicates_removed"] ELSE 0
    IN  dict_update(merged, [rows_excluded |-> rows_in - rows_out - dups])

(* ------------------------------------------------------------------ *)
(* processing.month_to_folder and the output paths                      *)
(* ------------------------------------------------------------------ *)
(* the folder keyed by the year only *)
month_to_folder_year_only(m) == SubSeq(replace(m, "-", <<>>), 1, 4)

month_to_folder(m) == replace(m, "-", <<>>)

out_dir_of(m) == month_to_folder(m)

report_path_of(m) == <<out_dir_of(m), "report.xml">>

summary_path_of(m) == <<out_dir_of(m), "summary.json">>

(* ------------------------------------------------------------------ *)
(* Input values: the texts of the CSV cells the model draws from        *)
(* ------------------------------------------------------------------ *)
ID_A == <<"A", "1">>

ID_A_padded == <<" ", "A", "1", " ">>

ID_B == <<"A", "2">>

ST_mixed == <<"C", "h", "a", "r", "g", "e", "b", "a", "c", "k", " ">>

ST_approved == <<"a", "p", "p", "r", "o", "v", "e", "d">>

D_may == <<"2", "0", "2", "4", "-", "0", "5", "-", "1", "0">>

D_apr == <<"2", "0", "2", "4", "-", "0", "4", "-", "3", "0">>

D_garbage == <<"n", "/", "a">>

D_dmy_slash == <<"1", "0", "/", "0", "5", "/", "2", "0", "2", "4">>

D_ymd_slash == <<"2", "0", "2", "4", "/", "0", "5", "/", "1", "1">>

D_dmy_dash == <<"1", "2", "-", "0", "5", "-", "2", "0", "2", "4">>

D_iso_T == <<"2", "0", "2", "4", "-", "0", "5", "-", "1", "3", "T", "0", "8", ":", "3", "0", ":", "0", "0">>

D_iso_space == <<"2", "0", "2", "4", "-", "0", "5", "-", "1", "4", " ", "8", ":", "0", "5", ":", "5", "9">>

D_short == <<"2", "0", "2", "4", "-", "5", "-", "1">>

D_loose_T == <<"2", "0", "2", "4", "-", "0", "5", "-", "1", "0", "T", "1", "0", ":", "0", "0">>

D_loose_Z == <<"2", "0", "2", "4", "-", "0", "5", "-", "1", "0", "Z">>

D_month13 == <<"2", "0", "2", "4", "-", "1", "3", "-", "9", "9">>

D_feb30 == <<"2", "0", "2", "4", "-", "0", "2", "-", "3", "0">>

D_day99 == <<"2", "0", "2", "4", "-", "0", "5", "-", "9", "9">>

D_year999 == <<"0", "9", "9", "9", "-", "0", "5", "-", "1", "0">>

D_compact == <<"2", "0", "2", "4", "0", "5", "1", "0">>

D_apr_dmy == <<"3", "0", "/", "0", "4", "/", "2", "0", "2", "4">>

D_padded == <<" ", "2", "0", "2", "4", "-", "0", "5", "-", "1", "5", " ">>

D_letters == <<"a", "b", "c", "d", "-", "e", "f", "-", "g", "h", "i", "j">>

D_leap == <<"2", "9", "/", "0", "2", "/", "2", "0", "2", "4">>

D_noleap == <<"2", "9", "/", "0", "2", "/", "2", "0", "2", "3">>

A_ten == <<"1", "0", ".", "0", "0">>

A_comma == <<"5", ",", "5", "0">>

A_abc == <<"a", "b", "c">>

A_negative == <<"-", "1", ".", "0", "0">>

A_nan == <<"N", "a", "N">>

A_half == <<"1", "0", ".", "0", "0", "5">>

A_zero == <<"0">>

A_inf == <<"I", "n", "f", "i", "n", "i", "t", "y">>

A_two_points == <<"1", ",", "0", "0", "0", ".", "5", "0">>

TY_credit == <<"c", "r", "e", "d", "i", "t">>

TY_foo == <<"f", "o", "o">>

CU_usd == <<" ", "u", "s", "d">>

CU_blank == <<" ", " ">>

MERCHANT == <<"1", "2", ".", "3", "/", "4", "-", "5">>

NET == <<"0", "2">>

MAY == <<"2", "0", "2", "4", "-", "0", "5">>

APRIL == <<"2", "0", "2", "4", "-", "0", "4">>

EMPTY == <<>>

(* A CSV record under the header id, transaction_id, status, date,      *)
(* timestamp, amount, amount_BRL, currency, type, category,             *)
(* merchant_id, network (no transaction_code and no merchant column)    *)
Row(id, status, date, amount, type, currency) ==
    [id |-> id, transaction_id |-> EMPTY, status |-> status, date |-> date,
     timestamp |-> EMPTY, amount |-> amount, amount_BRL |-> EMPTY, currency |-> currency,
     type |-> type, category |-> EMPTY, merchant_id |-> MERCHANT, network |-> NET]

(* the same transaction written with the synonymous columns *)
SynonymRow ==
    [id |-> EMPTY, transaction_id |-> ID_A, status |-> ST_approved, date |-> EMPTY,
     timestamp |-> D_iso_T, amount |-> EMPTY, amount_BRL |-> A_comma, currency |-> EMPTY,
     type |-> EMPTY, category |-> TY_credit, merchant_id |-> EMPTY, network |-> EMPTY]

Months == {MAY, APRIL}

(* rows for multi-row inputs: one row per way of leaving the loop *)
RowGood(id)     == Row(id, ST_mixed, D_may, A_ten, TY_credit, CU_usd)

RowSoft(id)     == Row(id, EMPTY, D_dmy_slash, A_comma, TY_foo, EMPTY)

RowBadDate(id)  == Row(id, EMPTY, D_garbage, A_ten, TY_credit, CU_usd)

RowOffMonth(id) == Row(id, EMPTY, D_apr, A_ten, TY_credit, CU_usd)

RowBadAmt(id)   == Row(id, ST_approved, D_may, A_abc, TY_foo, CU_blank)

RowBelow(id)    == Row(id, EMPTY, D_may, A_negative, EMPTY, EMPTY)

RowNaN(id)      == Row(id, ST_approved, D_may, A_nan, TY_credit, CU_usd)

CoarseRows ==
    {RowGood(ID_A), RowSoft(ID_A), RowBadDate(ID_A), RowOffMonth(ID_A),
     RowBadAmt(ID_A), RowBelow(ID_A), RowNaN(ID_A),
     RowGood(ID_B), RowBadDate(ID_B),
     RowGood(ID_A_padded), RowGood(EMPTY), SynonymRow}

(* every combination of cell values, for one-row inputs *)
FullRows ==
    {Row(id, st, dt, am, ty, cu) :
        id \in {ID_A, ID_A_padded, EMPTY},
        st \in {ST_mixed, ST_approved, EMPTY, TY_foo},
        dt \in {D_may, D_apr, D_garbage, D_dmy_slash},
        am \in {A_ten, A_comma, A_abc, A_negative, A_nan, A_zero, A_inf, A_two_points, EMPTY},
        ty \in {TY_credit, TY_foo, EMPTY},
        cu \in {CU_usd, CU_blank, EMPTY}}

DateInputs ==
    {D_may, D_apr, D_garbage, D_dmy_slash, D_ymd_slash, D_dmy_dash, D_iso_T, D_iso_space,
     D_short, D_loose_T, D_loose_Z, D_month13, D_feb30, D_day99, D_year999, D_compact,
     D_apr_dmy, D_padded, D_letters, D_leap, D_noleap, EMPTY}

DateRows == {Row(ID_A, ST_approved, dt, A_ten, TY_credit, CU_usd) : dt \in DateInputs}

(* amounts written in thousandths with either decimal separator *)
Thousandths == (0..MaxThousandths) \cup {10005}

Pad3(n) == IF n < 100 THEN <<"0">> \o Pad2(n) ELSE NatToDigits(n)

RenderThousandths(n, sep) == NatToDigits(n \div 1000) \o <<sep>> \o Pad3(n % 1000)

AmountRows ==
    {Row(ID_A, ST_approved, D_may, RenderThousandths(n, sep), TY_credit, CU_usd) :
        n \in Thousandths, sep \in {".", ","}}

RECURSIVE SeqsUpTo(_, _)
SeqsUpTo(n, S) ==
    IF n = 0 THEN {<<>>}
    ELSE LET shorter == SeqsUpTo(n - 1, S)
         IN  shorter \cup {Append(q, x) : q \in {z \in shorter : Len(z) = n - 1}, x \in S}

(* The invocations of process_month the model starts from: the CSV       *)
(* content, the target month, the send flag, and whether an earlier run  *)
(* has left report.xml and summary.json at the same paths.               *)
Invocations ==
    {[input |-> q, month |-> MAY, send_email |-> FALSE, earlier |-> FALSE] :
        q \in SeqsUpTo(MaxRows, CoarseRows)}
    \cup
    {[input |-> <<r>>, month |-> MAY, send_email |-> FALSE, earlier |-> FALSE] :
        r \in FullRows \cup AmountRows}
    \cup
    {[input |-> <<r>>, month |-> mo, send_email |-> FALSE, earlier |-> FALSE] :
        r \in DateRows, mo \in Months}
    \cup
    {[input |-> q, month |-> mo, send_email |-> se, earlier |-> ea] :
        q \in {<<>>, <<RowGood(ID_A)>>, <<RowGood(ID_A), RowNaN(ID_B)>>},
        mo \in Months, se \in BOOLEAN, ea \in BOOLEAN}

(* ------------------------------------------------------------------ *)
(* emailer.send_report_email                                            *)
(* ------------------------------------------------------------------ *)
(* What the environment does to one call: whether the report file can   *)
(* be opened for the attachment, whether SMTP_PORT is an integer,        *)
(* whether SMTP is configured, how the SMTP session ends, and whether    *)
(* each evidence file can be written.                                    *)
EmailEnvs ==
    [compose_ok : BOOLEAN, port_ok : BOOLEAN, configured : BOOLEAN,
     smtp : {"ok", "auth", "error"}, evidence_ok : BOOLEAN,
     fail_eml_ok : BOOLEAN, log_ok : BOOLEAN]

NoEmail == [status |-> "none"]

EmailRaise(fault, written) ==
    [raised |-> TRUE, fault |-> fault, email_result |-> NoEmail, written |-> written]

EmailReturn(fault, status, written) ==
    [raised |-> FALSE, fault |-> fault, email_result |-> [status |-> status], written |-> written]

(* the handler `except Exception` of lines 209-218 *)
EmailGenericHandler(env, fault) ==
    IF ~ env.fail_eml_ok THEN EmailRaise(fault, {})
    ELSE IF ~ env.log_ok THEN EmailRaise(fault, {"email_FAILED.eml"})
    ELSE EmailReturn(fault, "failed", {"email_FAILED.eml", "email_error.log"})

(* the handler `except smtplib.SMTPAuthenticationError` of lines 203-208 *)
EmailAuthHandler(env, fault) ==
    IF ~ env.fail_eml_ok THEN EmailRaise(fault, {})
    ELSE EmailReturn(fault, "failed", {"email_AUTHFAILED.eml"})

send_report_email(env) ==
    IF ~ env.compose_ok THEN EmailRaise("compose", {})
    ELSE IF ~ env.port_ok THEN EmailRaise("settings", {})
    ELSE IF ~ env.configured
    THEN (IF env.evidence_ok THEN EmailReturn("none", "saved", {"email.eml"})
          ELSE EmailRaise("evidence", {}))
    ELSE IF env.smtp = "auth" THEN EmailAuthHandler(env, "smtp")
    ELSE IF env.smtp = "error" THEN EmailGenericHandler(env, "smtp")
    ELSE IF env.evidence_ok THEN EmailReturn("none", "sent", {"email_evidence_SENT.eml"})
    ELSE EmailGenericHandler(env, "evidence")

(* ------------------------------------------------------------------ *)
(* processing.process_month as a state machine                          *)
(* ------------------------------------------------------------------ *)
VARIABLES
    input,            \* the records of the CSV file at input_path
    month,            \* the target month, "YYYY-MM"
    send_email,       \* the send flag
    pc,               \* the stage process_month is about to run
    rows,             \* rows, as returned by read_transactions
    idx,              \* position of the loop of normalize_and_filter in rows
    seen_ids,         \* seen_ids
    normalized,       \* normalized
    metrics,          \* the six counters of normalize_and_filter
    exits,            \* for each row processed, the way it left the loop
    summary_metrics,  \* metrics after build_summary_metrics (line 21)
    dirs,             \* the directories that exist under output_base
    files,            \* the files that exist, path -> content
    result,           \* the value returned by process_month
    email_fault,      \* what failed inside send_report_email, if anything
    runs              \* concurrent invocations: request id -> the locals of its run

vars == <<input, month, send_email, pc, rows, idx, seen_ids, normalized, metrics, exits,
          summary_metrics, dirs, files, result, email_fault, runs>>

Pending == [status |-> "pending"]

ErrorResult(e) == [status |-> "error", error |-> e]

FileContent(by, complete, data) == [by |-> by, complete |-> complete, data |-> data]

(* open(path, "w") and a complete write *)
WriteFile(f, path, content) ==
    [p \in (DOMAIN f) \cup {path} |-> IF p = path THEN content ELSE f[p]]

EarlierFiles(m) ==
    WriteFile(WriteFile(<<>>, report_path_of(m), FileContent("earlier", TRUE, <<>>)),
              summary_path_of(m), FileContent("earlier", TRUE, <<>>))

(* summary.json written before report.xml *)
next_stage_summary_first(stage) ==
    CASE stage = "read"       -> "normalize"
      [] stage = "normalize"  -> "aggregate"
      [] stage = "aggregate"  -> "ensure_dir"
      [] stage = "ensure_dir" -> "summary"
      [] stage = "summary"    -> "report"
      [] stage = "report"     -> "email"
      [] stage = "email"      -> "done"

(* the order of the statements of process_month *)
next_stage(stage) ==
    CASE stage = "read"       -> "normalize"
      [] stage = "normalize"  -> "aggregate"
      [] stage = "aggregate"  -> "ensure_dir"
      [] stage = "ensure_dir" -> "report"
      [] stage = "report"     -> "summary"
      [] stage = "summary"    -> "email"
      [] stage = "email"      -> "done"

Init ==
    \E c \in Invocations :
        /\ input = c.input
        /\ month = c.month
        /\ send_email = c.send_email
        /\ pc = "read"
        /\ rows = <<>>
        /\ idx = 1
        /\ seen_ids = {}
        /\ normalized = <<>>
        /\ metrics = ZeroMetrics
        /\ exits = <<>>
        /\ summary_metrics = <<>>
        /\ dirs = IF c.earlier THEN {out_dir_of(c.month)} ELSE {}
        /\ files = IF c.earlier THEN EarlierFiles(c.month) ELSE <<>>
        /\ result = Pending
        /\ email_fault = "none"
        /\ runs = <<>>

(* the `except Exception` of process_month: return the error result *)
Fail(e) ==
    /\ result' = ErrorResult(e)
    /\ pc' = "done"

(* reader.read_transactions: every cell is stripped *)
read_transactions(recs) ==
    [k \in 1..Len(recs) |-> [c \in DOMAIN recs[k] |-> strip(recs[k][c])]]

ReadTransactions ==
    /\ pc = "read"
    /\ rows' = read_transactions(input)
    /\ pc' = next_stage(pc)
    /\ UNCHANGED runs
    /\ UNCHANGED <<input, month, send_email, idx, seen_ids, normalized, metrics, exits,
                   summary_metrics, dirs, files, result, email_fault>>

(* open(path) raises: missing or unreadable file *)
ReadFails ==
    /\ pc = "read"
    /\ Fail("read")
    /\ UNCHANGED runs
    /\ UNCHANGED <<input, month, send_email, rows, idx, seen_ids, normalized, metrics, exits,
                   summary_metrics, dirs, files, email_fault>>

(* one iteration of `for r in rows` *)
NormalizeStep ==
    /\ pc = "normalize"
    /\ idx <= Len(rows)
    /\ LET o == normalize_row(rows[idx], seen_ids, metrics, month)
       IN  IF o.exit = "raise"
           THEN /\ Fail("normalize")
                /\ UNCHANGED <<idx, seen_ids, normalized, metrics, exits>>
           ELSE /\ idx' = idx + 1
                /\ seen_ids' = o.seen
                /\ normalized' = normalized \o o.out
                /\ metrics' = o.metrics
                /\ exits' = Append(exits, o.exit)
                /\ UNCHANGED <<pc, result>>
    /\ UNCHANGED runs
    /\ UNCHANGED <<input, month, send_email, rows, summary_metrics, dirs, files, email_fault>>

(* `return normalized, metrics` *)
NormalizeReturn ==
    /\ pc = "normalize"
    /\ idx > Len(rows)
    /\ pc' = next_stage(pc)
    /\ UNCHANGED runs
    /\ UNCHANGED <<input, month, send_email, rows, idx, seen_ids, normalized, metrics, exits,
                   summary_metrics, dirs, files, result, email_fault>>

Aggregate ==
    /\ pc = "aggregate"
    /\ summary_metrics' = build_summary_metrics(Len(rows), Len(normalized), metrics)
    /\ pc' = next_stage(pc)
    /\ UNCHANGED runs
    /\ UNCHANGED <<input, month, send_email, rows, idx, seen_ids, normalized, metrics, exits,
                   dirs, files, result, email_fault>>

(* os.makedirs(out_dir, exist_ok=True) *)
EnsureDir ==
    /\ pc = "ensure_dir"
    /\ dirs' = dirs \cup {out_dir_of(month)}
    /\ pc' = next_stage(pc)
    /\ UNCHANGED runs
    /\ UNCHANGED <<input, month, send_email, rows, idx, seen_ids, normalized, metrics, exits,
                   summary_metrics, files, result, email_fault>>

EnsureDirFails ==
    /\ pc = "ensure_dir"
    /\ Fail("ensure_dir")
    /\ UNCHANGED runs
    /\ UNCHANGED <<input, month, send_email, rows, idx, seen_ids, normalized, metrics, exits,
                   summary_metrics, dirs, files, email_fault>>

(* xml_builder.build_xml_report: one Transaction element per row *)
BuildXmlReport ==
    /\ pc = "report"
    /\ out_dir_of(month) \in dirs
    /\ files' = WriteFile(files, report_path_of(month), FileContent("run", TRUE, normalized))
    /\ pc' = next_stage(pc)
    /\ UNCHANGED runs
    /\ UNCHANGED <<input, month, send_email, rows, idx, seen_ids, normalized, metrics, exits,
                   summary_metrics, dirs, result, email_fault>>

(* tree.write raises: either the file could not be opened, or it was    *)
(* opened (and truncated) and the write stopped part-way                *)
BuildXmlReportFails ==
    /\ pc = "report"
    /\ \E opened \in BOOLEAN :
          files' = IF opened
                   THEN WriteFile(files, report_path_of(month), FileContent("run", FALSE, <<>>))
                   ELSE files
    /\ Fail("report")
    /\ UNCHANGED runs
    /\ UNCHANGED <<input, month, send_email, rows, idx, seen_ids, normalized, metrics, exits,
                   summary_metrics, dirs, email_fault>>

(* summary.write_summary_json *)
WriteSummaryJson ==
    /\ pc = "summary"
    /\ files' = WriteFile(files, summary_path_of(month),
                          FileContent("run", TRUE, <<summary_metrics>>))
    /\ pc' = next_stage(pc)
    /\ UNCHANGED runs
    /\ UNCHANGED <<input, month, send_email, rows, idx, seen_ids, normalized, metrics, exits,
                   summary_metrics, dirs, result, email_fault>>

WriteSummaryJsonFails ==
    /\ pc = "summary"
    /\ \E opened \in BOOLEAN :
          files' = IF opened
                   THEN WriteFile(files, summary_path_of(month), FileContent("run", FALSE, <<>>))
                   ELSE files
    /\ Fail("summary")
    /\ UNCHANGED runs
    /\ UNCHANGED <<input, month, send_email, rows, idx, seen_ids, normalized, metrics, exits,
                   summary_metrics, dirs, email_fault>>

OkResult(email_result) ==
    [status |-> "ok", report_path |-> report_path_of(month),
     summary_path |-> summary_path_of(month), metrics |-> summary_metrics,
     email_result |-> email_result]

(* `if send_email:` not taken, then the return of line 36 *)
ReturnWithoutEmail ==
    /\ pc = "email"
    /\ ~ send_email
    /\ result' = OkResult(NoEmail)
    /\ pc' = next_stage(pc)
    /\ UNCHANGED runs
    /\ UNCHANGED <<input, month, send_email, rows, idx, seen_ids, normalized, metrics, exits,
                   summary_metrics, dirs, files, email_fault>>

RECURSIVE WriteAll(_, _, _)
WriteAll(f, folder, names) ==
    IF names = {} THEN f
    ELSE LET n == CHOOSE x \in names : TRUE
         IN  WriteAll(WriteFile(f, <<folder, n>>, FileContent("run", TRUE, <<>>)),
                      folder, names \ {n})

(* `if send_email:` taken: send_report_email, then the return of line 36, *)
(* or the `except Exception` of process_month when it raises               *)
SendReportEmail ==
    /\ pc = "email"
    /\ send_email
    /\ \E env \in EmailEnvs :
          LET o == send_report_email(env)
          IN  /\ files' = WriteAll(files, out_dir_of(month), o.written)
              /\ email_fault' = o.fault
              /\ result' = IF o.raised THEN ErrorResult("email") ELSE OkResult(o.email_result)
    /\ pc' = "done"
    /\ UNCHANGED runs
    /\ UNCHANGED <<input, month, send_email, rows, idx, seen_ids, normalized, metrics, exits,
                   summary_metrics, dirs>>

Next ==
    \/ ReadTransactions
    \/ ReadFails
    \/ NormalizeStep
    \/ NormalizeReturn
    \/ Aggregate
    \/ EnsureDir
    \/ EnsureDirFails
    \/ BuildXmlReport
    \/ BuildXmlReportFails
    \/ WriteSummaryJson
    \/ WriteSummaryJsonFails
    \/ ReturnWithoutEmail
    \/ SendReportEmail

Spec == Init /\ [][Next]_vars

(* ------------------------------------------------------------------ *)
(* Vocabulary of the properties                                         *)
(* ------------------------------------------------------------------ *)
Count(q, x) == Cardinality({k \in 1..Len(q) : q[k] = x})

(* normalize_and_filter has returned to process_month *)
NormalizeReturned ==
    \/ pc \in {"aggregate", "ensure_dir", "report", "summary", "email"}
    \/ (pc = "done" /\ result.status = "ok")
    \/ (pc = "done" /\ result.status = "error" /\ result.error \notin {"read", "normalize"})

(* this step is one completed iteration of the loop, on rows[idx] *)
RowStep == exits' # exits

ExitTaken == exits'[Len(exits')]

Delta(k) == metrics'[k] - metrics[k]

TotalDelta ==
    Delta("duplicates_removed") + Delta("below_threshold_excluded") + Delta("invalid_labels")
    + Delta("invalid_dates") + Delta("invalid_amounts") + Delta("invalid_currency")

StatusInc(r) == IF status_of(r) = unknown THEN 1 ELSE 0

LastOut == normalized'[Len(normalized')]

(* ------------------------------------------------------------------ *)
(* C1: row accounting of normalize_and_filter. Every processed row has  *)
(* left the loop by exactly one exit, and the number of transactions    *)
(* emitted equals the number of rows processed minus duplicates_removed,*)
(* invalid_dates, invalid_amounts, below_threshold_excluded, the rows   *)
(* dropped as out-of-month and the rows dropped for empty identity;     *)
(* when the function has returned, every input row has been processed.  *)
(* ------------------------------------------------------------------ *)
C1_RowAccounting ==
    /\ Len(exits) = idx - 1
    /\ Len(normalized) = Len(exits) - metrics["duplicates_removed"] - metrics["invalid_dates"]
                         - metrics["invalid_amounts"] - metrics["below_threshold_excluded"]
                         - Count(exits, "month") - Count(exits, "noid")
    /\ Len(normalized) = Count(exits, "emit")
    /\ (NormalizeReturned => Len(exits) = Len(rows) /\ Len(rows) = Len(input))

C1_Witness ==
    /\ NormalizeReturned
    /\ Len(normalized) >= 1
    /\ Count(exits, "month") >= 1
    /\ metrics["duplicates_removed"] >= 1

(* ------------------------------------------------------------------ *)
(* C2, as claimed: a row rejected as duplicate, for its date or for its *)
(* amount increments exactly one of the six counters by 1; a row        *)
(* dropped for missing identity or as out-of-month increments none; a   *)
(* row rejected at the date step touches no label, currency, amount or  *)
(* below-threshold counter.                                             *)
(* ------------------------------------------------------------------ *)
C2_Claimed ==
    [][RowStep =>
        /\ (ExitTaken \in {"dup", "date", "amount", "below"} =>
               TotalDelta = 1 /\ \A k \in MetricKeys : Delta(k) \in {0, 1})
        /\ (ExitTaken \in {"noid", "month"} => metrics' = metrics)
        /\ (ExitTaken = "date" =>
               /\ Delta("invalid_labels") = 0
               /\ Delta("invalid_currency") = 0
               /\ Delta("invalid_amounts") = 0
               /\ Delta("below_threshold_excluded") = 0)]_vars

(* ------------------------------------------------------------------ *)
(* C2, amended: a rejected row increments exactly one of the four       *)
(* rejection counters (duplicates_removed, invalid_dates,               *)
(* invalid_amounts, below_threshold_excluded) by 1; because the status  *)
(* step runs before the date step, a non-duplicate row with an          *)
(* unrecognised status has also incremented invalid_labels by 1, be it  *)
(* rejected at the date or amount step or dropped as out-of-month; a    *)
(* row without identity and a duplicate touch nothing else; a row       *)
(* rejected at the date step or dropped as out-of-month touches no      *)
(* currency, amount or below-threshold counter.                         *)
(* ------------------------------------------------------------------ *)
OnlyChanged(keys) == \A k \in MetricKeys \ keys : Delta(k) = 0

C2_RejectionCounters ==
    [][RowStep =>
        LET r == rows[idx]
        IN  /\ (ExitTaken = "noid" => metrics' = metrics)
            /\ (ExitTaken = "dup" =>
                   Delta("duplicates_removed") = 1 /\ OnlyChanged({"duplicates_removed"}))
            /\ (ExitTaken = "date" =>
                   /\ Delta("invalid_dates") = 1
                   /\ Delta("invalid_labels") = StatusInc(r)
                   /\ OnlyChanged({"invalid_dates", "invalid_labels"}))
            /\ (ExitTaken = "month" =>
                   /\ Delta("invalid_labels") = StatusInc(r)
                   /\ OnlyChanged({"invalid_labels"}))
            /\ (ExitTaken = "amount" =>
                   /\ Delta("invalid_amounts") = 1
                   /\ Delta("invalid_labels") = StatusInc(r)
                   /\ OnlyChanged({"invalid_amounts", "invalid_labels"}))
            /\ (ExitTaken = "below" =>
                   /\ Delta("below_threshold_excluded") = 1
                   /\ Delta("invalid_labels") = StatusInc(r)
                   /\ OnlyChanged({"below_threshold_excluded", "invalid_labels"}))]_vars

C2_Witness ==
    /\ Count(exits, "date") = 1
    /\ Count(exits, "noid") = 1
    /\ metrics["invalid_dates"] = 1
    /\ metrics["invalid_labels"] = 1

(* ------------------------------------------------------------------ *)
(* C3, as claimed: an identity carried by two rows of the input yields  *)
(* exactly one transaction in the output.                               *)
(* ------------------------------------------------------------------ *)
Occurrences(x) == {k \in 1..Len(exits) : tid_of(rows[k]) = x}

IdsProcessed == {tid_of(rows[k]) : k \in 1..Len(exits)} \ {EMPTY}

First(x) == CHOOSE k \in Occurrences(x) : \A j \in Occurrences(x) : k <= j

OutputsOf(x) == {k \in 1..Len(normalized) : normalized[k].id = x}

C3_Claimed ==
    NormalizeReturned =>
        \A x \in IdsProcessed :
            Cardinality(Occurrences(x)) = 2 => Cardinality(OutputsOf(x)) = 1

(* ------------------------------------------------------------------ *)
(* C3, amended: for an identity carried by several rows, the output     *)
(* holds at most one transaction with it: the first occurrence when     *)
(* that row passes the date, month and amount steps, none when the      *)
(* first occurrence is rejected there; every later occurrence leaves by *)
(* the duplicate exit, and duplicates_removed counts exactly the later  *)
(* occurrences.                                                         *)
(* ------------------------------------------------------------------ *)
C3_Dedup ==
    /\ \A x \in IdsProcessed :
          /\ Cardinality(OutputsOf(x)) = (IF exits[First(x)] = "emit" THEN 1 ELSE 0)
          /\ \A k \in Occurrences(x) \ {First(x)} : exits[k] = "dup"
          /\ exits[First(x)] # "dup"
          /\ \A k \in OutputsOf(x) :
                normalized[k] = normalize_row(rows[First(x)], {}, ZeroMetrics, month).out[1]
    /\ metrics["duplicates_removed"] =
          Cardinality({k \in 1..Len(exits) : tid_of(rows[k]) # EMPTY}) - Cardinality(IdsProcessed)

C3_Witness ==
    /\ NormalizeReturned
    /\ \E x \in IdsProcessed :
          /\ Cardinality(Occurrences(x)) = 2
          /\ exits[First(x)] = "month"
          /\ OutputsOf(x) = {}
    /\ metrics["duplicates_removed"] = 1

(* ------------------------------------------------------------------ *)
(* C4, as claimed: a row that reaches the type step with a type (or,    *)
(* when absent, category) other than DEBIT or CREDIT is retained with   *)
(* Type DEBIT and increments invalid_labels by 1, on top of the         *)
(* increment of the status step.                                        *)
(* ------------------------------------------------------------------ *)
C4_Claimed ==
    [][(RowStep /\ ExitTaken = "emit" /\ type_raw_of(rows[idx]) \notin ALLOWED_TYPES) =>
        /\ Len(normalized') = Len(normalized) + 1
        /\ LastOut.Type = DEBIT
        /\ Delta("invalid_labels") = StatusInc(rows[idx]) + 1]_vars

(* ------------------------------------------------------------------ *)
(* C5, as claimed: a row that reaches the currency step with the        *)
(* currency cell absent or empty gets Currency "BRL" and increments     *)
(* invalid_currency by 1; a non-empty currency is upper-cased, kept     *)
(* and increments nothing.                                              *)
(* ------------------------------------------------------------------ *)
CurrencyCell(r) == strip(GetOr(r, "currency", EMPTY))

C5_Claimed ==
    [][(RowStep /\ ExitTaken \in {"amount", "below", "emit"}) =>
        IF CurrencyCell(rows[idx]) = EMPTY
        THEN /\ Delta("invalid_currency") = 1
             /\ (ExitTaken = "emit" => LastOut.Currency = BRL)
        ELSE /\ Delta("invalid_currency") = 0
             /\ (ExitTaken = "emit" => LastOut.Currency = upper(CurrencyCell(rows[idx])))]_vars

(* ------------------------------------------------------------------ *)
(* C6, as claimed: an amount of n thousandths, written with "." or ","  *)
(* as decimal separator, is emitted rounded half-up to cents.           *)
(* ------------------------------------------------------------------ *)
HalfUpCents(n) == (n + 5) \div 10

C6_Claimed ==
    [][(RowStep /\ ExitTaken = "emit") =>
        \A n \in Thousandths, sep \in {".", ","} :
            rows[idx].amount = RenderThousandths(n, sep) =>
                LastOut.Amount = FormatCents(HalfUpCents(n))]_vars

(* ------------------------------------------------------------------ *)
(* C7: month filter. Every transaction of the output has a Date whose   *)
(* YYYY-MM prefix is the target month, and every row emitted has a      *)
(* parsed date in the target month, whichever format or fallback        *)
(* produced it.                                                         *)
(* ------------------------------------------------------------------ *)
YearMonth(d) == IF Len(d) >= 7 THEN SubSeq(d, 1, 7) ELSE d \o <<"?">>

C7_MonthFilter ==
    /\ \A k \in 1..Len(normalized) : YearMonth(normalized[k].Date) = month
    /\ \A j \in 1..Len(exits) :
          exits[j] = "emit" => YearMonth(date_iso_of(rows[j])) = month
    /\ \A j \in 1..Len(exits) :
          (/\ tid_of(rows[j]) # EMPTY
           /\ date_iso_of(rows[j]) # NoDate
           /\ YearMonth(date_iso_of(rows[j])) # month) => exits[j] \in {"month", "dup"}

C7_Witness ==
    /\ Len(exits) = 1
    /\ exits[1] = "emit"
    /\ rows[1].date = D_day99
    /\ normalized[1].Date = D_day99

(* ------------------------------------------------------------------ *)
(* C8, as claimed: whatever fails inside send_report_email, the failure *)
(* comes back as email_result with status failed and the run result is  *)
(* ok with report_path, summary_path and metrics.                       *)
(* ------------------------------------------------------------------ *)
C8_Claimed ==
    (pc = "done" /\ email_fault # "none") =>
        /\ result.status = "ok"
        /\ result.email_result.status = "failed"
        /\ result.report_path = report_path_of(month)
        /\ result.summary_path = summary_path_of(month)
        /\ result.metrics = summary_metrics

(* ------------------------------------------------------------------ *)
(* C9: stage order and failure of process_month. The stages run in the  *)
(* order read, normalize, aggregate, create directory, write            *)
(* report.xml, write summary.json, notify; the call always ends with a  *)
(* result of status ok or error; status ok implies that report.xml and  *)
(* summary.json were both written completely by this run, the report    *)
(* first; a failure gives status error with a description, and no file  *)
(* is removed: what this run or an earlier one wrote stays, only the    *)
(* file the failing stage was writing may be left incomplete.           *)
(* ------------------------------------------------------------------ *)
StageOrder == <<"read", "normalize", "aggregate", "ensure_dir", "report", "summary", "email", "done">>

WrittenByRun(f, path) == path \in DOMAIN f /\ f[path].by = "run" /\ f[path].complete

BeingWritten(stage) ==
    IF stage = "report" THEN {report_path_of(month)}
    ELSE IF stage = "summary" THEN {summary_path_of(month)}
    ELSE {}

C9_StagesAndFailure ==
    [][/\ (pc' # pc =>
              \/ \E k \in 1..(Len(StageOrder) - 1) : pc = StageOrder[k] /\ pc' = StageOrder[k + 1]
              \/ (pc' = "done" /\ result'.status = "error"))
       /\ (pc' = "done" => result'.status \in {"ok", "error"})
       /\ (pc' # "done" => result' = Pending)
       /\ (result'.status = "ok" =>
              /\ WrittenByRun(files', report_path_of(month))
              /\ WrittenByRun(files', summary_path_of(month))
              /\ files'[report_path_of(month)].data = normalized)
       /\ ((summary_path_of(month) \in DOMAIN files' /\ files'[summary_path_of(month)].by = "run") =>
              WrittenByRun(files', report_path_of(month)))
       /\ ((result.status = "pending" /\ result'.status = "error") =>
              /\ result'.error = pc
              /\ \A p \in (DOMAIN files) \ BeingWritten(pc) : files'[p] = files[p])
       /\ (DOMAIN files) \subseteq (DOMAIN files')
       /\ dirs \subseteq dirs']_vars

C9_Witness ==
    /\ pc = "done"
    /\ result.status = "error"
    /\ result.error = "summary"
    /\ WrittenByRun(files, report_path_of(month))
    /\ summary_path_of(month) \in DOMAIN files
    /\ files[summary_path_of(month)].by = "earlier"

(* ------------------------------------------------------------------ *)
(* C10: for every run that returns metrics, rows_excluded = rows_in -   *)
(* rows_out - duplicates_removed, rows_in is the number of rows read,   *)
(* rows_out the number of transactions written to the report, and the   *)
(* six counters of the normalizer appear unchanged.                     *)
(* ------------------------------------------------------------------ *)
C10_SummaryMetrics ==
    result.status = "ok" =>
        LET m == result.metrics
        IN  /\ m["rows_excluded"] = m["rows_in"] - m["rows_out"] - m["duplicates_removed"]
            /\ m["rows_in"] = Len(input)
            /\ m["rows_out"] = Len(files[report_path_of(month)].data)
            /\ \A k \in MetricKeys : m[k] = metrics[k]
            /\ DOMAIN m = MetricKeys \cup {"rows_in", "rows_out", "rows_excluded"}
            /\ files[summary_path_of(month)].data = <<m>>

C10_Witness ==
    /\ result.status = "ok"
    /\ result.metrics["duplicates_removed"] = 1
    /\ result.metrics["rows_excluded"] = 1
    /\ result.metrics["rows_out"] = 1

(* ------------------------------------------------------------------ *)
(* Concurrent invocations: api.run called for two requests at once.     *)
(* Each request runs process_month with its own locals; the output      *)
(* root (dirs, files) is shared.                                        *)
(* ------------------------------------------------------------------ *)
Runs == {"r1", "r2"}

Other(r) == CHOOSE o \in Runs : o # r

(* normalize_and_filter as a function: the loop run to its end *)
RECURSIVE normalize_from(_, _, _, _, _, _)
normalize_from(rws, k, seen, out, m, target_month) ==
    IF k > Len(rws) THEN [raised |-> FALSE, normalized |-> out, metrics |-> m]
    ELSE LET o == normalize_row(rws[k], seen, m, target_month)
         IN  IF o.exit = "raise" THEN [raised |-> TRUE, normalized |-> out, metrics |-> m]
             ELSE normalize_from(rws, k + 1, o.seen, out \o o.out, o.metrics, target_month)

normalize_and_filter(rws, target_month) ==
    normalize_from(rws, 1, {}, <<>>, ZeroMetrics, target_month)

(* Size in bytes of what build_xml_report writes: the declaration and   *)
(* the root element (self-closed when there is no transaction), and     *)
(* per transaction the indented markup plus the texts; an element with  *)
(* an empty text is self-closed.                                        *)
XmlEmptyBytes == 106

XmlRootBytes == 126

XmlTxBytes == 211

XmlEmptyElementSaving == 11

TxBytes(t) ==
    XmlTxBytes + Len(t.id) + Len(t.Status) + Len(t.Date) + Len(t.Amount) + Len(t.Currency)
    + Len(t.Type) + Len(t.MerchantId) + Len(t.Network) + Len(t.Category)
    - (IF t.MerchantId = <<>> THEN XmlEmptyElementSaving ELSE 0)

RECURSIVE SumTxBytes(_)
SumTxBytes(data) == IF data = <<>> THEN 0 ELSE TxBytes(Head(data)) + SumTxBytes(Tail(data))

ReportBytes(m, data) ==
    IF data = <<>> THEN XmlEmptyBytes + Len(m) ELSE XmlRootBytes + Len(m) + SumTxBytes(data)

(* Size in bytes of json.dump(metrics, indent=2): the nine keys and the *)
(* digits of their values                                               *)
JsonBytes == 202

RECURSIVE SumDigits(_, _)
SumDigits(m, keys) ==
    IF keys = {} THEN 0
    ELSE LET k == CHOOSE x \in keys : TRUE
         IN  Len(NatToDigits(m[k])) + SumDigits(m, keys \ {k})

SummaryBytes(m) == JsonBytes + SumDigits(m, DOMAIN m)

(* a file of the shared output root: who wrote it last, whether it is   *)
(* that writer's whole output, the output, and the size of the file     *)
ConcContent(by, complete, data, size) ==
    [by |-> by, complete |-> complete, data |-> data, size |-> size]

(* open(path, "w"): the file is created or truncated *)
OpenForWrite(f, path, r) == WriteFile(f, path, ConcContent(r, FALSE, <<>>, 0))

(* The buffered output reaches the file when it is closed, written from *)
(* offset 0 of the writer's own descriptor: what another writer has put *)
(* there since the open is overwritten, and its bytes beyond the end of *)
(* this output stay.                                                    *)
FlushAndClose(f, path, r, data, bytes) ==
    IF f[path].size <= bytes
    THEN WriteFile(f, path, ConcContent(r, TRUE, data, bytes))
    ELSE WriteFile(f, path, ConcContent(r, FALSE, data, f[path].size))

(* the month check of api.run, line 19 *)
MonthAccepted(m) == m # <<>> /\ Len(m) = 7 /\ m[5] = "-"

M_odd_1 == <<"2", "-", "0", "4", "-", "0", "5">>

M_odd_2 == <<"2", "0", "-", "4", "-", "0", "5">>

M_compact == <<"2", "0", "2", "4", "0", "5">>

ConcInputs == {<<>>, <<RowGood(ID_A)>>, <<RowGood(ID_A), RowGood(ID_B)>>}

(* the pairs of requests the model starts from *)
Requests ==
    {[r \in Runs |-> [month |-> IF r = "r1" THEN mp[1] ELSE mp[2],
                      input |-> IF r = "r1" THEN i1 ELSE i2,
                      send_email |-> IF r = "r1" THEN se ELSE FALSE]] :
        mp \in {<<MAY, APRIL>>, <<MAY, MAY>>, <<M_odd_1, M_odd_2>>, <<MAY, M_compact>>},
        i1 \in ConcInputs \cup {<<RowNaN(ID_A)>>},
        i2 \in ConcInputs,
        se \in BOOLEAN}

NoResponse == [http |-> 0]

InitConc ==
    /\ \E q \in Requests :
          runs = [r \in Runs |->
                    [month |-> q[r].month, input |-> q[r].input, send_email |-> q[r].send_email,
                     pc |-> "request", rows |-> <<>>, normalized |-> <<>>,
                     metrics |-> ZeroMetrics, result |-> Pending, response |-> NoResponse]]
    /\ dirs = {}
    /\ files = <<>>
    /\ input = <<>>
    /\ month = MAY
    /\ send_email = FALSE
    /\ pc = "read"
    /\ rows = <<>>
    /\ idx = 1
    /\ seen_ids = {}
    /\ normalized = <<>>
    /\ metrics = ZeroMetrics
    /\ exits = <<>>
    /\ summary_metrics = <<>>
    /\ result = Pending
    /\ email_fault = "none"

single_run_vars == <<input, month, send_email, pc, rows, idx, seen_ids, normalized, metrics,
                     exits, summary_metrics, result, email_fault>>

(* api.run up to the call of process_month: 400 on a malformed month *)
ApiRun(r) ==
    /\ runs[r].pc = "request"
    /\ runs' = IF MonthAccepted(runs[r].month)
               THEN [runs EXCEPT ![r].pc = "read"]
               ELSE [runs EXCEPT ![r].pc = "responded",
                                 ![r].response = [http |-> 400]]
    /\ UNCHANGED <<dirs, files, single_run_vars>>

ConcRead(r) ==
    /\ runs[r].pc = "read"
    /\ runs' = [runs EXCEPT ![r].rows = read_transactions(runs[r].input),
                            ![r].pc = next_stage("read")]
    /\ UNCHANGED <<dirs, files, single_run_vars>>

ConcNormalize(r) ==
    /\ runs[r].pc = "normalize"
    /\ LET o == normalize_and_filter(runs[r].rows, runs[r].month)
       IN  runs' = IF o.raised
                   THEN [runs EXCEPT ![r].result = ErrorResult("normalize"), ![r].pc = "done"]
                   ELSE [runs EXCEPT ![r].normalized = o.normalized,
                                     ![r].metrics = o.metrics,
                                     ![r].pc = next_stage("normalize")]
    /\ UNCHANGED <<dirs, files, single_run_vars>>

ConcAggregate(r) ==
    /\ runs[r].pc = "aggregate"
    /\ runs' = [runs EXCEPT
                  ![r].metrics = build_summary_metrics(Len(runs[r].rows), Len(runs[r].normalized),
                                                       runs[r].metrics),
                  ![r].pc = next_stage("aggregate")]
    /\ UNCHANGED <<dirs, files, single_run_vars>>

ConcEnsureDir(r) ==
    /\ runs[r].pc = "ensure_dir"
    /\ dirs' = dirs \cup {out_dir_of(runs[r].month)}
    /\ runs' = [runs EXCEPT ![r].pc = next_stage("ensure_dir")]
    /\ UNCHANGED <<files, single_run_vars>>

(* build_xml_report, tree.write: the file is opened *)
ConcReportOpen(r) ==
    /\ runs[r].pc = "report"
    /\ out_dir_of(runs[r].month) \in dirs
    /\ files' = OpenForWrite(files, report_path_of(runs[r].month), r)
    /\ runs' = [runs EXCEPT ![r].pc = "report_writing"]
    /\ UNCHANGED <<dirs, single_run_vars>>

(* build_xml_report, tree.write: the document is written and the file closed *)
ConcReportClose(r) ==
    /\ runs[r].pc = "report_writing"
    /\ files' = FlushAndClose(files, report_path_of(runs[r].month), r, runs[r].normalized,
                              ReportBytes(runs[r].month, runs[r].normalized))
    /\ runs' = [runs EXCEPT ![r].pc = next_stage("report")]
    /\ UNCHANGED <<dirs, single_run_vars>>

(* write_summary_json: the file is opened *)
ConcSummaryOpen(r) ==
    /\ runs[r].pc = "summary"
    /\ files' = OpenForWrite(files, summary_path_of(runs[r].month), r)
    /\ runs' = [runs EXCEPT ![r].pc = "summary_writing"]
    /\ UNCHANGED <<dirs, single_run_vars>>

(* write_summary_json: json.dump and the end of the with block *)
ConcSummaryClose(r) ==
    /\ runs[r].pc = "summary_writing"
    /\ files' = FlushAndClose(files, summary_path_of(runs[r].month), r, <<runs[r].metrics>>,
                              SummaryBytes(runs[r].metrics))
    /\ runs' = [runs EXCEPT ![r].pc = next_stage("summary")]
    /\ UNCHANGED <<dirs, single_run_vars>>

(* an input or output operation of the run raises; process_month        *)
(* returns the error result and leaves the files as they are            *)
ConcFails(r) ==
    /\ runs[r].pc \in {"read", "ensure_dir", "report", "report_writing", "summary",
                       "summary_writing"}
    /\ runs' = [runs EXCEPT ![r].result = ErrorResult(runs[r].pc), ![r].pc = "done"]
    /\ UNCHANGED <<dirs, files, single_run_vars>>

ConcOkResult(r, email_result) ==
    [status |-> "ok", report_path |-> report_path_of(runs[r].month),
     summary_path |-> summary_path_of(runs[r].month), metrics |-> runs[r].metrics,
     email_result |-> email_result]

ConcReturnWithoutEmail(r) ==
    /\ runs[r].pc = "email"
    /\ ~ runs[r].send_email
    /\ runs' = [runs EXCEPT ![r].result = ConcOkResult(r, NoEmail), ![r].pc = next_stage("email")]
    /\ UNCHANGED <<dirs, files, single_run_vars>>

RECURSIVE ConcWriteAll(_, _, _, _)
ConcWriteAll(f, folder, names, r) ==
    IF names = {} THEN f
    ELSE LET n == CHOOSE x \in names : TRUE
         IN  ConcWriteAll(WriteFile(f, <<folder, n>>, ConcContent(r, TRUE, <<>>, 1)),
                          folder, names \ {n}, r)

ConcSendReportEmail(r) ==
    /\ runs[r].pc = "email"
    /\ runs[r].send_email
    /\ \E env \in EmailEnvs :
          LET o == send_report_email(env)
          IN  /\ files' = ConcWriteAll(files, out_dir_of(runs[r].month), o.written, r)
              /\ runs' = [runs EXCEPT
                            ![r].result = IF o.raised THEN ErrorResult("email")
                                          ELSE ConcOkResult(r, o.email_result),
                            ![r].pc = "done"]
    /\ UNCHANGED <<dirs, single_run_vars>>

(* api.run after process_month has returned: lines 29-38 *)
ApiRespond(r) ==
    /\ runs[r].pc = "done"
    /\ runs' = [runs EXCEPT
                  ![r].response = IF runs[r].result.status = "ok"
                                  THEN [http |-> 200, status |-> "completed"]
                                  ELSE [http |-> 500, status |-> "failed"],
                  ![r].pc = "responded"]
    /\ UNCHANGED <<dirs, files, single_run_vars>>

NextConc ==
    \/ \E r \in Runs : ApiRun(r)
    \/ \E r \in Runs : ConcRead(r)
    \/ \E r \in Runs : ConcNormalize(r)
    \/ \E r \in Runs : ConcAggregate(r)
    \/ \E r \in Runs : ConcEnsureDir(r)
    \/ \E r \in Runs : ConcReportOpen(r)
    \/ \E r \in Runs : ConcReportClose(r)
    \/ \E r \in Runs : ConcSummaryOpen(r)
    \/ \E r \in Runs : ConcSummaryClose(r)
    \/ \E r \in Runs : ConcFails(r)
    \/ \E r \in Runs : ConcReturnWithoutEmail(r)
    \/ \E r \in Runs : ConcSendReportEmail(r)
    \/ \E r \in Runs : ApiRespond(r)

SpecConc == InitConc /\ [][NextConc]_vars

(* ------------------------------------------------------------------ *)
(* Vocabulary of the concurrency properties                             *)
(* ------------------------------------------------------------------ *)
Finished == \A r \in Runs : runs[r].pc = "responded"

RunOk(r) == runs[r].result.status = "ok"

ReportOf(r) ==
    ConcContent(r, TRUE, runs[r].normalized, ReportBytes(runs[r].month, runs[r].normalized))

SummaryOf(r) == ConcContent(r, TRUE, <<runs[r].metrics>>, SummaryBytes(runs[r].metrics))

ReportAndSummary(r) == {report_path_of(runs[r].month), summary_path_of(runs[r].month)}

OutputOf(r, p) == IF p[2] = "report.xml" THEN ReportOf(r) ELSE SummaryOf(r)

WellFormedMonth(m) ==
    /\ Len(m) = 7
    /\ m[5] = "-"
    /\ AllDigits(SubSeq(m, 1, 4))
    /\ AllDigits(SubSeq(m, 6, 7))

(* the writer's output over the longer output of the other run *)
Torn(r, p) ==
    [by |-> r, complete |-> FALSE, data |-> OutputOf(r, p).data, size |-> OutputOf(Other(r), p).size]

====
